---------------------------- MODULE Spec2Model ----------------------------
(***************************************************************************)
(* State-machine model of the SonarQube analysis agent                     *)
(* (src/src/sonarqube_agent/agent/agent_core.py and its collaborators).    *)
(*                                                                         *)
(* The agent is single threaded and cooperative: every `await` of the      *)
(* source is a step boundary.  An action of this model is the resumption   *)
(* after one await, run up to the next await (or to the return / raise of  *)
(* process_finding).  The wall clock (`now`) may advance between any two   *)
(* steps.  Confidences are integer percentages (0.85 is 85).               *)
(***************************************************************************)
EXTENDS Integers, Sequences, FiniteSets, TLC

\* ------------------------------------------------------------------ bounds
MaxTime == 2              \* last clock tick the model explores
MaxFindings == 2          \* findings the finding source hands out in one run
MaxPolls == 2             \* polls of run_continuous that are explored
MaxPrsPerHour == 1        \* rate_limiting.max_prs_per_hour of the explored configs
MaxCommentsPerHour == 2   \* rate_limiting.max_comments_per_hour of the explored configs

\* ------------------------------------------------------- program constants
FpMinConfidence == 85         \* false_positive.min_confidence default
RequireReviewBelow == 70      \* false_positive.require_review_below default
FixMinConfidence == 90        \* fix_generation.min_confidence default
Hour == 2                     \* timedelta(hours=1), in clock ticks

Priorities == {"P0", "P1", "P2", "P3"}

VARIABLES
    config,                     \* self.config (behavior section) and the DRY_RUN
                                \* environment flag main() sets, fixed for a run
    mode,                       \* "once" (run_once) or "continuous" (run_continuous)
    now,                        \* datetime.now()
    prs_created_this_hour,      \* self.prs_created_this_hour
    comments_posted_this_hour,  \* self.comments_posted_this_hour
    rate_limit_reset_time,      \* self.rate_limit_reset_time
    stats,                      \* self.stats
    main_pc,                    \* position of run_once / run_continuous
    last_run_time,              \* local last_run_time of run_continuous (-1 is None)
    polls,                      \* number of fetches started
    findings,                   \* the fetched batch
    idx,                        \* position of the for-loop in the batch
    pf,                         \* frame of process_finding: its position and locals
    calls,                      \* collaborator calls made for the current finding
    invoked,                    \* findings process_finding was invoked for, this batch
    raised,                     \* number of process_finding invocations that raised
    window,                     \* externally visible actions since the last reset
    recent,                     \* externally visible actions of the last Hour ticks
    source                      \* the finding source: its issues and its last fetch

vars == <<config, mode, now, prs_created_this_hour, comments_posted_this_hour,
          rate_limit_reset_time, stats, main_pc, last_run_time, polls, findings,
          idx, pf, calls, invoked, raised, window, recent, source>>

\* ------------------------------------------------------------ configuration
DefaultConfig ==
    [fp_min_confidence      |-> FpMinConfidence,
     auto_mark              |-> TRUE,
     require_review_below   |-> RequireReviewBelow,
     fix_min_confidence     |-> FixMinConfidence,
     request_copilot_review |-> TRUE,
     auto_fix_priorities    |-> {"P0", "P1"},
     max_prs_per_hour       |-> MaxPrsPerHour,
     max_comments_per_hour  |-> MaxCommentsPerHour,
     repositories           |-> TRUE,
     dry_run                |-> FALSE]

\* The configurations explored: the defaults and single departures from them.
\* dry_run is os.environ["DRY_RUN"] (main.py line 234), which no component reads.
Configs ==
    {DefaultConfig,
     [DefaultConfig EXCEPT !.require_review_below = 90],
     [DefaultConfig EXCEPT !.auto_mark = FALSE],
     [DefaultConfig EXCEPT !.repositories = FALSE],
     [DefaultConfig EXCEPT !.dry_run = TRUE],
     [DefaultConfig EXCEPT !.request_copilot_review = FALSE,
                           !.auto_fix_priorities = {"P0"}]}

\* The runs explored: every configuration under run_once, the defaults under
\* run_continuous as well.
Runs ==
    [config : Configs, mode : {"once"}]
    \cup {[config |-> DefaultConfig, mode |-> "continuous"]}

\* ------------------------------------------------- collaborator outcomes
\* What sonarqube.get_source_code can hand back: text, "" or None (error).
SourceOutcomes == {"text", "empty", "error"}

\* What github.get_file_contents can hand back to _get_code_context: a file
\* with lines inside the window, a file whose slice lines[from-1:to] is empty,
\* "" or None (error).
ContextFileOutcomes == {"text", "empty_slice", "empty", "error"}

\* What github.get_file_contents can hand back to _get_full_file.
FullFileOutcomes == {"text", "empty", "error"}

NoAnalysis ==
    [present |-> FALSE, is_false_positive |-> FALSE, confidence |-> 0,
     evidence_ok |-> TRUE, recommendation |-> ""]

\* The conservative result FalsePositiveDetector.analyze returns on any error.
ConservativeAnalysis ==
    [present |-> TRUE, is_false_positive |-> FALSE, confidence |-> 0,
     evidence_ok |-> TRUE,
     recommendation |-> "Manual review required due to analysis error"]

FpConfidences == {70, 85, 90, 95}

\* Results of fp_detector.analyze.  evidence_ok = FALSE is a parsed answer
\* whose "evidence" is not iterable (JSON null), on which generate_comment
\* raises TypeError.
FpOutcomes ==
    {ConservativeAnalysis}
    \cup {[present |-> TRUE, is_false_positive |-> TRUE, confidence |-> c,
           evidence_ok |-> TRUE, recommendation |-> "model"] : c \in FpConfidences}
    \cup {[present |-> TRUE, is_false_positive |-> TRUE, confidence |-> 95,
           evidence_ok |-> FALSE, recommendation |-> "model"],
          [present |-> TRUE, is_false_positive |-> FALSE, confidence |-> 95,
           evidence_ok |-> TRUE, recommendation |-> "model"]}

\* no RiskAssessment (yet): the risk fields of a frame the model does not compute
NoAssessment ==
    [risk_score |-> 0, priority |-> "none", exploitability |-> 0, impact |-> 0,
     exposure |-> 0, confidence |-> 0, justification |-> "",
     recommended_sla |-> "", present |-> FALSE]

NoFix ==
    [present |-> FALSE, is_safe |-> FALSE, confidence |-> 0, numeric |-> TRUE,
     fixed_code |-> << >>]

FixConfidences == {80, 90}

\* Results of fix_generator.generate_fix: None, or a FixResult.  numeric =
\* FALSE is a FixResult whose confidence came out of the JSON as a string or
\* null, on which the comparison of line 224 raises TypeError.
FixOutcomes ==
    {NoFix}
    \cup {[present |-> TRUE, is_safe |-> s, confidence |-> c, numeric |-> TRUE,
           fixed_code |-> <<"y", "y">>] :
              s \in BOOLEAN, c \in FixConfidences}
    \cup {[present |-> TRUE, is_safe |-> TRUE, confidence |-> 0, numeric |-> FALSE,
           fixed_code |-> <<"y", "y">>]}

\* ------------------------------------------------------------- rate limiter
RateLimits ==
    [prs      |-> prs_created_this_hour,
     comments |-> comments_posted_this_hour,
     reset    |-> rate_limit_reset_time]

\* _reset_rate_limits_if_needed with > in place of >= at line 463
reset_rate_limits_if_later(rl, t) ==
    IF t > rl.reset
    THEN [prs |-> 0, comments |-> 0, reset |-> t + Hour]
    ELSE rl

\* _reset_rate_limits_if_needed, on the rate-limit fields rl at time t.
reset_rate_limits_if_needed(rl, t) ==
    IF t >= rl.reset
    THEN [prs |-> 0, comments |-> 0, reset |-> t + Hour]
    ELSE rl

\* lines 454 and 457 with <= in place of <
within_limit_inclusive(operation, rl) ==
    IF operation = "pr" THEN rl.prs <= config.max_prs_per_hour
    ELSE IF operation = "comment" THEN rl.comments <= config.max_comments_per_hour
    ELSE TRUE

\* The comparison _check_rate_limit returns, on the fields left by the reset.
within_limit(operation, rl) ==
    IF operation = "pr" THEN rl.prs < config.max_prs_per_hour
    ELSE IF operation = "comment" THEN rl.comments < config.max_comments_per_hour
    ELSE TRUE

\* The rate-limit fields after the increments a step makes on resuming
\* (pr_inc, comment_inc) and the _check_rate_limit(operation) it then makes
\* ("none": the step makes no check).
AfterStep(pr_inc, comment_inc, operation) ==
    LET rl0 == [RateLimits EXCEPT !.prs = @ + pr_inc, !.comments = @ + comment_inc]
    IN  IF operation = "none" THEN rl0 ELSE reset_rate_limits_if_needed(rl0, now)

\* _check_rate_limit(operation) made by a step after its increments.
check_rate_limit(pr_inc, comment_inc, operation) ==
    within_limit(operation, AfterStep(pr_inc, comment_inc, operation))

\* The effect of one step on the rate limiter and on the record of what was
\* really done: pr_made / comment_made are 1 when the step's collaborator call
\* created a pull request / posted a comment.
RateLimitStep(pr_inc, pr_made, comment_inc, comment_made, operation) ==
    LET rl1   == AfterStep(pr_inc, comment_inc, operation)
        wprs  == window.prs + pr_made
        wcom  == window.comments + comment_made
        reset == rl1.reset # rate_limit_reset_time
    IN  /\ prs_created_this_hour' = rl1.prs
        /\ comments_posted_this_hour' = rl1.comments
        /\ rate_limit_reset_time' = rl1.reset
        /\ window' = IF reset THEN [prs |-> 0, comments |-> 0]
                              ELSE [prs |-> wprs, comments |-> wcom]
        /\ recent' = [recent EXCEPT ![Hour] = [prs |-> @.prs + pr_made,
                                               comments |-> @.comments + comment_made]]

NoRateLimitStep == RateLimitStep(0, 0, 0, 0, "none")

\* ------------------------------------------------------------------- Init
\* The finding source before any issue was created and any fetch was made:
\* its issues in the order of their creation, the number of issues that will
\* yet be created during the run, the issues some fetch has returned, whether
\* the last get_issues call failed (and returned []) and whether any has.
NoSource ==
    [issues |-> << >>, pending |-> 0, fetched |-> {}, failed |-> FALSE,
     outage |-> FALSE]

IdleFrame ==
    [pc |-> "idle", code_context |-> FALSE, fp_analysis |-> NoAnalysis,
     risk |-> NoAssessment, priority |-> "none", full_file |-> FALSE,
     fix_result |-> NoFix,
     pr |-> FALSE, escalated |-> "none",
     committed |-> << >>,
     entry |-> [prs |-> 0, comments |-> 0]]

\* the agent after __init__, at the start of run_once or run_continuous
AgentInit ==
    /\ \E run \in Runs : config = run.config /\ mode = run.mode
    /\ now = 0
    /\ prs_created_this_hour = 0
    /\ comments_posted_this_hour = 0
    /\ rate_limit_reset_time = now + Hour
    /\ stats = [findings_analyzed |-> 0, false_positives_detected |-> 0,
                fixes_generated |-> 0, prs_created |-> 0, errors |-> 0]
    /\ main_pc = IF mode = "once" THEN "fetch" ELSE "loop_top"
    /\ last_run_time = -1
    /\ polls = IF mode = "once" THEN 1 ELSE 0
    /\ findings = << >>
    /\ idx = 1
    /\ pf = IdleFrame
    /\ calls = << >>
    /\ invoked = << >>
    /\ raised = 0
    /\ window = [prs |-> 0, comments |-> 0]
    /\ recent = [t \in 1..Hour |-> [prs |-> 0, comments |-> 0]]

Init == AgentInit /\ source = NoSource

\* ------------------------------------------------------------- main loops
LoopVars == <<config, mode, source, now, main_pc, last_run_time, polls, findings, idx,
              invoked, raised>>

\* The clock advances while the agent is suspended in an await.
Tick ==
    /\ now < MaxTime
    /\ now' = now + 1
    /\ recent' = [t \in 1..Hour |-> IF t < Hour THEN recent[t + 1]
                                    ELSE [prs |-> 0, comments |-> 0]]
    /\ UNCHANGED <<config, mode, source, prs_created_this_hour, comments_posted_this_hour,
                   rate_limit_reset_time, stats, main_pc, last_run_time, polls,
                   findings, idx, pf, calls, invoked, raised, window>>

\* run_continuous, top of the while loop: reset, then call _fetch_new_findings.
loop_top ==
    /\ mode = "continuous"
    /\ main_pc = "loop_top"
    /\ polls < MaxPolls
    /\ LET rl1 == reset_rate_limits_if_needed(RateLimits, now)
       IN  /\ prs_created_this_hour' = rl1.prs
           /\ comments_posted_this_hour' = rl1.comments
           /\ rate_limit_reset_time' = rl1.reset
           /\ window' = IF rl1.reset # rate_limit_reset_time
                        THEN [prs |-> 0, comments |-> 0] ELSE window
    /\ polls' = polls + 1
    /\ main_pc' = "fetch"
    /\ UNCHANGED <<config, mode, source, now, stats, last_run_time, findings, idx, pf,
                   calls, invoked, raised, recent>>

\* _fetch_new_findings returns: get_issues hands back the parsed issues, or
\* [] when the call failed.
fetch_returns ==
    /\ main_pc = "fetch"
    /\ \E n \in 0..(MaxFindings - stats.findings_analyzed) :
          findings' = [i \in 1..n |-> stats.findings_analyzed + i]
    /\ idx' = 1
    /\ invoked' = << >>
    /\ main_pc' = "processing"
    /\ UNCHANGED <<config, mode, source, now, prs_created_this_hour,
                   comments_posted_this_hour, rate_limit_reset_time, stats,
                   last_run_time, polls, pf, calls, raised, window, recent>>

\* -------------------------------------------------------- process_finding
\* Decisions of process_finding and its helpers, as the source writes them.

\* line 175: the false-positive branch is taken
fp_branch_taken(analysis) ==
    analysis.is_false_positive /\ analysis.confidence >= config.fp_min_confidence

\* line 333 with >= in place of >
should_transition_at_threshold(analysis) ==
    config.auto_mark /\ analysis.confidence >= config.require_review_below

\* line 333: _handle_false_positive issues the "wontfix" transition
should_transition(analysis) ==
    config.auto_mark /\ analysis.confidence > config.require_review_below

\* line 207
in_auto_fix(priority) == priority \in config.auto_fix_priorities

\* line 221 without the look at validation.is_safe
fix_is_safe_unvalidated(fix_result) == fix_result.present

\* line 221: `fix_result and fix_result.validation.is_safe`
fix_is_safe(fix_result) == fix_result.present /\ fix_result.is_safe

\* line 224
fix_confident(fix_result) == fix_result.confidence >= config.fix_min_confidence

\* the reasons of lines 234-241 told apart by the existence of a FixResult
escalation_reason_by_existence(fix_result) ==
    IF fix_result.present THEN "Low confidence fix"
    ELSE "Complex fix required"

\* lines 221-241: the reason handed to _escalate_to_human
escalation_reason(fix_result) ==
    IF fix_is_safe(fix_result) THEN "Low confidence fix"
    ELSE "Complex fix required"

InFinding(pc) == main_pc = "processing" /\ pf.pc = pc

Goto(frame, pc) == pf' = [frame EXCEPT !.pc = pc] /\ UNCHANGED stats

\* process_finding returns to the loop
Return(frame) == Goto(frame, "returned")

\* process_finding raises into the loop
Raise(frame) == Goto(frame, "raised")

\* lines 157-162 without the early return of line 159
AfterCodeContextUnguarded(frame) == Goto(frame, "get_rule_details")

\* lines 157-162: without a code context process_finding returns, with one it
\* goes on to get_rule_details
AfterCodeContext(frame) ==
    IF ~frame.code_context THEN Return(frame)
    ELSE Goto(frame, "get_rule_details")

\* lines 181-182 without the return: the finding goes on to risk assessment
FallThroughFalsePositive(frame) ==
    /\ pf' = [frame EXCEPT !.pc = "assess"]
    /\ stats' = [stats EXCEPT !.false_positives_detected = @ + 1]

\* lines 181-182, after _handle_false_positive
ReturnFalsePositive(frame) ==
    /\ pf' = [frame EXCEPT !.pc = "returned"]
    /\ stats' = [stats EXCEPT !.false_positives_detected = @ + 1]

\* lines 227-228, after _create_fix_pr, whatever it returned
ReturnAfterCreateFixPr(frame) ==
    /\ pf' = [frame EXCEPT !.pc = "returned"]
    /\ stats' = [stats EXCEPT !.fixes_generated = @ + 1, !.prs_created = @ + 1]

\* lines 329-343 and 181-182: the rest of _handle_false_positive
AfterFpComment(frame) ==
    IF should_transition(frame.fp_analysis)
    THEN Goto(frame, "transition_issue")
    ELSE ReturnFalsePositive(frame)

\* lines 204-213 without the look at auto_fix_priorities of line 207
Phase4AnyPriority(frame) ==
    IF config.repositories THEN Goto(frame, "get_full_file")
    ELSE Return(frame)

\* lines 204-213: phase 4 up to the await in _get_full_file
Phase4(frame) ==
    IF in_auto_fix(frame.priority)
    THEN IF config.repositories THEN Goto(frame, "get_full_file")
         ELSE Return(frame)            \* full_file is None: nothing more is done
    ELSE Return(frame)                 \* tracking only

\* lines 412-419 and 227-228: the rest of _create_fix_pr once a PR exists,
\* after the increments inc of the step
LinkPr(frame, pr_inc, pr_made) ==
    /\ RateLimitStep(pr_inc, pr_made, 0, 0, "comment")
    /\ IF check_rate_limit(pr_inc, 0, "comment")
       THEN Goto(frame, "pr_add_comment")
       ELSE ReturnAfterCreateFixPr(frame)

\* for finding in findings: await self.process_finding(finding) -- line 153 and
\* _get_code_context up to the await of get_source_code
call_process_finding ==
    /\ InFinding("idle")
    /\ idx <= Len(findings)
    /\ invoked' = Append(invoked, findings[idx])
    /\ stats' = [stats EXCEPT !.findings_analyzed = @ + 1]
    /\ pf' = [IdleFrame EXCEPT !.pc = "get_source_code",
                               !.entry = [prs |-> prs_created_this_hour,
                                          comments |-> comments_posted_this_hour]]
    /\ calls' = << >>
    /\ UNCHANGED <<config, mode, source, now, prs_created_this_hour,
                   comments_posted_this_hour, rate_limit_reset_time, main_pc,
                   last_run_time, polls, findings, idx, raised, window, recent>>

\* _get_code_context: sonarqube.get_source_code returned
get_source_code_returns ==
    /\ InFinding("get_source_code")
    /\ calls' = Append(calls, "get_source_code")
    /\ \E code \in SourceOutcomes :
          IF code = "text"
          THEN AfterCodeContext([pf EXCEPT !.code_context = TRUE])
          ELSE IF config.repositories
               THEN Goto(pf, "context_get_file_contents")
               ELSE AfterCodeContext(pf)       \* _get_code_context returned None
    /\ NoRateLimitStep
    /\ UNCHANGED LoopVars

\* _get_code_context: the fallback github.get_file_contents returned
context_get_file_contents_returns ==
    /\ InFinding("context_get_file_contents")
    /\ calls' = Append(calls, "get_file_contents")
    /\ \E file \in ContextFileOutcomes :
          AfterCodeContext([pf EXCEPT !.code_context = (file = "text")])
    /\ NoRateLimitStep
    /\ UNCHANGED LoopVars

\* sonarqube.get_rule_details returned (its value only feeds the prompts)
get_rule_details_returns ==
    /\ InFinding("get_rule_details")
    /\ calls' = Append(calls, "get_rule_details")
    /\ Goto(pf, "analyze")
    /\ NoRateLimitStep
    /\ UNCHANGED LoopVars

\* lines 173-182 and _handle_false_positive up to its first await, once
\* fp_detector.analyze has returned analysis
AfterAnalyze(analysis) ==
    LET frame == [pf EXCEPT !.fp_analysis = analysis]
    IN  IF fp_branch_taken(analysis)
        THEN /\ RateLimitStep(0, 0, 0, 0, "comment")
             /\ IF check_rate_limit(0, 0, "comment")
                THEN IF analysis.evidence_ok
                     THEN Goto(frame, "fp_add_comment")
                     ELSE Raise(frame)   \* generate_comment iterates evidence
                ELSE AfterFpComment(frame)
        ELSE /\ NoRateLimitStep
             /\ Goto(frame, "assess")

\* fp_detector.analyze returned one of the results it can return
analyze_returns ==
    /\ InFinding("analyze")
    /\ calls' = Append(calls, "analyze")
    /\ \E analysis \in FpOutcomes : AfterAnalyze(analysis)
    /\ UNCHANGED LoopVars

\* _handle_false_positive: add_comment returned (line 327 ignores its value)
fp_add_comment_returns ==
    /\ InFinding("fp_add_comment")
    /\ \E ok \in BOOLEAN :
          /\ calls' = Append(calls, "add_comment:fp")
          /\ RateLimitStep(0, 0, 1, IF ok THEN 1 ELSE 0, "none")
    /\ AfterFpComment(pf)
    /\ UNCHANGED LoopVars

\* _handle_false_positive: transition_issue returned
transition_issue_returns ==
    /\ InFinding("transition_issue")
    /\ calls' = Append(calls, "transition_issue")
    /\ ReturnFalsePositive(pf)
    /\ NoRateLimitStep
    /\ UNCHANGED LoopVars

\* risk_assessor.assess returned: lines 193-201
AfterAssess(risk) ==
    LET frame == [pf EXCEPT !.priority = risk.priority, !.risk = risk]
    IN  /\ IF check_rate_limit(0, 0, "comment")
           THEN Goto(frame, "risk_add_comment")
           ELSE Phase4(frame)
        /\ RateLimitStep(0, 0, 0, 0, "comment")

\* risk_assessor.assess returned an assessment of any priority (of which the
\* pipeline reads the priority only)
assess_returns ==
    /\ InFinding("assess")
    /\ calls' = Append(calls, "assess")
    /\ \E priority \in Priorities :
          AfterAssess([NoAssessment EXCEPT !.priority = priority, !.present = TRUE])
    /\ UNCHANGED LoopVars

\* the risk comment's add_comment returned (line 202 ignores its value)
risk_add_comment_returns ==
    /\ InFinding("risk_add_comment")
    /\ \E ok \in BOOLEAN :
          /\ calls' = Append(calls, "add_comment:risk")
          /\ RateLimitStep(0, 0, 1, IF ok THEN 1 ELSE 0, "none")
    /\ Phase4(pf)
    /\ UNCHANGED LoopVars

\* _get_full_file: github.get_file_contents returned; line 213
get_full_file_returns ==
    /\ InFinding("get_full_file")
    /\ calls' = Append(calls, "get_file_contents")
    /\ \E file \in FullFileOutcomes :
          IF file = "text"
          THEN Goto([pf EXCEPT !.full_file = TRUE], "generate_fix")
          ELSE Return(pf)
    /\ NoRateLimitStep
    /\ UNCHANGED LoopVars

\* line 382: the content _create_fix_pr passes to create_or_update_file
content(fix_result) == fix_result.fixed_code

\* lines 353-368 without the _check_rate_limit("pr") of line 353
CreateFixPrUnchecked(frame) ==
    /\ NoRateLimitStep
    /\ IF config.repositories
       THEN Goto(frame, "create_branch")
       ELSE ReturnAfterCreateFixPr(frame)

\* lines 353-368: _create_fix_pr up to the await of create_branch
CreateFixPr(frame) ==
    /\ RateLimitStep(0, 0, 0, 0, "pr")
    /\ IF check_rate_limit(0, 0, "pr") /\ config.repositories
       THEN Goto(frame, "create_branch")
       ELSE ReturnAfterCreateFixPr(frame)     \* _create_fix_pr returned None

\* lines 425-446: _escalate_to_human up to its await
EscalateToHuman(frame) ==
    LET escalated == [frame EXCEPT !.escalated = escalation_reason(frame.fix_result)]
    IN  /\ RateLimitStep(0, 0, 0, 0, "comment")
        /\ IF check_rate_limit(0, 0, "comment")
           THEN Goto(escalated, "escalate_add_comment")
           ELSE Return(escalated)

\* fix_generator.generate_fix returned: lines 221-241
AfterGenerateFix(fix_result) ==
    LET frame == [pf EXCEPT !.fix_result = fix_result]
    IN  IF fix_is_safe(fix_result) /\ ~fix_result.numeric
        THEN NoRateLimitStep /\ Raise(frame)     \* TypeError at line 224
        ELSE IF fix_is_safe(fix_result) /\ fix_confident(fix_result)
             THEN CreateFixPr(frame)
             ELSE EscalateToHuman(frame)

\* fix_generator.generate_fix returned one of the results it can return
generate_fix_returns ==
    /\ InFinding("generate_fix")
    /\ calls' = Append(calls, "generate_fix")
    /\ \E fix_result \in FixOutcomes : AfterGenerateFix(fix_result)
    /\ UNCHANGED LoopVars

\* _create_fix_pr: github.create_branch returned (its value is not looked at)
create_branch_returns ==
    /\ InFinding("create_branch")
    /\ \E ok \in BOOLEAN :
          calls' = Append(calls, IF ok THEN "create_branch" ELSE "create_branch:failed")
    /\ Goto(pf, "create_or_update_file")
    /\ NoRateLimitStep
    /\ UNCHANGED LoopVars

\* _create_fix_pr: github.create_or_update_file returned (value not looked at);
\* lines 386-396 then build the PR text with PRTemplateGenerator, whose module
\* is not part of the sources at hand: it returns, or raises into line 421.
\* committed is the content the call wrote to the branch.
create_or_update_file_returns ==
    /\ InFinding("create_or_update_file")
    /\ \E ok \in BOOLEAN, template \in {"ok", "raises"} :
          LET frame == IF ok THEN [pf EXCEPT !.committed = content(pf.fix_result)]
                       ELSE pf
          IN  /\ calls' = Append(calls, IF ok THEN "create_or_update_file"
                                             ELSE "create_or_update_file:failed")
              /\ IF template = "ok"
                 THEN Goto(frame, "create_pull_request")
                 ELSE ReturnAfterCreateFixPr(frame)
    /\ NoRateLimitStep
    /\ UNCHANGED LoopVars

\* _create_fix_pr: github.create_pull_request returned a PullRequest or None;
\* lines 405-410
create_pull_request_returns ==
    /\ InFinding("create_pull_request")
    /\ \E pr \in BOOLEAN :
          IF pr
          THEN /\ calls' = Append(calls, "create_pull_request")
               /\ IF config.request_copilot_review
                  THEN /\ RateLimitStep(1, 1, 0, 0, "none")
                       /\ Goto([pf EXCEPT !.pr = TRUE], "request_copilot_review")
                  ELSE LinkPr([pf EXCEPT !.pr = TRUE], 1, 1)
          ELSE /\ calls' = Append(calls, "create_pull_request:failed")
               /\ NoRateLimitStep
               /\ ReturnAfterCreateFixPr(pf)
    /\ UNCHANGED LoopVars

\* _create_fix_pr: github.request_copilot_review returned; lines 412-415
request_copilot_review_returns ==
    /\ InFinding("request_copilot_review")
    /\ calls' = Append(calls, "request_copilot_review")
    /\ LinkPr(pf, 0, 0)
    /\ UNCHANGED LoopVars

\* _create_fix_pr: the PR link's add_comment returned (line 416 ignores its value)
pr_add_comment_returns ==
    /\ InFinding("pr_add_comment")
    /\ \E ok \in BOOLEAN :
          /\ calls' = Append(calls, "add_comment:pr")
          /\ RateLimitStep(0, 0, 1, IF ok THEN 1 ELSE 0, "none")
    /\ ReturnAfterCreateFixPr(pf)
    /\ UNCHANGED LoopVars

\* _escalate_to_human: add_comment returned (line 444 ignores its value)
escalate_add_comment_returns ==
    /\ InFinding("escalate_add_comment")
    /\ \E ok \in BOOLEAN :
          /\ calls' = Append(calls, "add_comment:escalate")
          /\ RateLimitStep(0, 0, 1, IF ok THEN 1 ELSE 0, "none")
    /\ Return(pf)
    /\ UNCHANGED LoopVars

\* ------------------------------------------------- the loop over the batch
\* lines 102-104 / 138-140: stats["errors"] after process_finding ended
errors_after(errors, outcome) ==
    IF outcome = "raised" THEN errors + 1 ELSE errors

\* the loop without its try/except: an exception ends the batch
next_index_unless_raised(i, outcome) ==
    IF outcome = "raised" THEN Len(findings) + 1 ELSE i + 1

\* the for loop's next position after process_finding ended
next_index(i, outcome) == i + 1

\* process_finding returned or raised: the loop's except clause and next turn
loop_next ==
    /\ main_pc = "processing"
    /\ pf.pc \in {"returned", "raised"}
    /\ stats' = [stats EXCEPT !.errors = errors_after(@, pf.pc)]
    /\ raised' = IF pf.pc = "raised" THEN raised + 1 ELSE raised
    /\ idx' = next_index(idx, pf.pc)
    /\ pf' = IdleFrame
    /\ calls' = << >>
    /\ UNCHANGED <<config, mode, source, now, prs_created_this_hour,
                   comments_posted_this_hour, rate_limit_reset_time, main_pc,
                   last_run_time, polls, findings, invoked, window, recent>>

\* line 120 without the while loop around it: the agent ends after the pause
after_backoff_stop == "done"

\* line 120 and the while True of line 88: after the pause the loop goes on
after_backoff == "loop_top"

\* the batch is exhausted: run_once logs and returns; run_continuous records
\* last_run_time (line 106), logs and sleeps for the poll interval, or, when
\* lines 109-113 raise (asyncio.sleep on an interval that is no number), logs
\* the error at line 119 and sleeps for 60 seconds
batch_done ==
    /\ main_pc = "processing"
    /\ pf.pc = "idle"
    /\ idx > Len(findings)
    /\ IF mode = "once"
       THEN main_pc' = "done" /\ UNCHANGED last_run_time
       ELSE /\ main_pc' \in {"sleep", "backoff"}
            /\ last_run_time' = now
    /\ UNCHANGED <<config, mode, source, now, prs_created_this_hour,
                   comments_posted_this_hour, rate_limit_reset_time, stats, polls,
                   findings, idx, pf, calls, invoked, raised, window, recent>>

\* run_continuous: asyncio.sleep(interval) returned
sleep_returns ==
    /\ main_pc = "sleep"
    /\ main_pc' = "loop_top"
    /\ UNCHANGED <<config, mode, source, now, prs_created_this_hour,
                   comments_posted_this_hour, rate_limit_reset_time, stats,
                   last_run_time, polls, findings, idx, pf, calls, invoked,
                   raised, window, recent>>

\* run_continuous: the asyncio.sleep(60) of the except clause returned
backoff_returns ==
    /\ main_pc = "backoff"
    /\ main_pc' = after_backoff
    /\ UNCHANGED <<config, mode, source, now, prs_created_this_hour,
                   comments_posted_this_hour, rate_limit_reset_time, stats,
                   last_run_time, polls, findings, idx, pf, calls, invoked,
                   raised, window, recent>>

Next ==
    \/ Tick
    \/ loop_top
    \/ fetch_returns
    \/ call_process_finding
    \/ get_source_code_returns
    \/ context_get_file_contents_returns
    \/ get_rule_details_returns
    \/ analyze_returns
    \/ fp_add_comment_returns
    \/ transition_issue_returns
    \/ assess_returns
    \/ risk_add_comment_returns
    \/ get_full_file_returns
    \/ generate_fix_returns
    \/ create_branch_returns
    \/ create_or_update_file_returns
    \/ create_pull_request_returns
    \/ request_copilot_review_returns
    \/ pr_add_comment_returns
    \/ escalate_add_comment_returns
    \/ loop_next
    \/ batch_done
    \/ sleep_returns
    \/ backoff_returns

Spec == Init /\ [][Next]_vars

\* ------------------------------------------------------------- properties
\* c was called for the current finding and has returned
Has(c) == \E i \in DOMAIN calls : calls[i] = c

\* the calls of _create_fix_pr that change the code host, whatever they returned
PrCalls ==
    {"create_branch", "create_branch:failed",
     "create_or_update_file", "create_or_update_file:failed",
     "create_pull_request", "create_pull_request:failed"}

\* a branch, commit or pull request call was made (returned or in flight)
PrAttempted ==
    \/ \E i \in DOMAIN calls : calls[i] \in PrCalls
    \/ pf.pc \in {"create_branch", "create_or_update_file", "create_pull_request"}

\* the wontfix transition was issued (returned or in flight)
TransitionIssued == Has("transition_issue") \/ pf.pc = "transition_issue"

\* the verdict of the current finding passed the false-positive threshold
FpVerdictPassed ==
    /\ pf.fp_analysis.is_false_positive
    /\ pf.fp_analysis.confidence >= config.fp_min_confidence

\* the fix of the current finding exists, is safe and meets the threshold
FixGatesPassed ==
    /\ pf.fix_result.present
    /\ pf.fix_result.is_safe
    /\ pf.fix_result.numeric
    /\ pf.fix_result.confidence >= config.fix_min_confidence

\* C1: a branch, commit or pull request is asked of the code host for a
\* finding only if the false-positive branch was not taken, the priority is in
\* auto_fix_priorities, generate_fix returned a FixResult, its validation is
\* safe and its confidence is >= the fix min_confidence.
C1_PrOnlyThroughAllGates ==
    PrAttempted =>
        /\ ~FpVerdictPassed
        /\ pf.priority \in config.auto_fix_priorities
        /\ FixGatesPassed

\* a pull request was created on a confidence equal to the threshold
C1_Witness ==
    /\ Has("create_pull_request")
    /\ pf.fix_result.confidence = config.fix_min_confidence

\* C2: the wontfix transition is issued only when the verdict is true, its
\* confidence is >= min_confidence and strictly above require_review_below.
C2_TransitionOnlyAboveBothThresholds ==
    TransitionIssued =>
        /\ pf.fp_analysis.is_false_positive
        /\ pf.fp_analysis.confidence >= config.fp_min_confidence
        /\ pf.fp_analysis.confidence > config.require_review_below

\* a transition was made under a require_review_below above min_confidence
C2_Witness ==
    /\ Has("transition_issue")
    /\ config.require_review_below > config.fp_min_confidence

\* the step in which generate_fix has returned a fix that passes both gates,
\* so that _create_fix_pr runs and makes its _check_rate_limit("pr")
PrCheckStep ==
    /\ pf.pc = "generate_fix"
    /\ pf'.pc # "generate_fix"
    /\ pf'.fix_result.present
    /\ pf'.fix_result.is_safe
    /\ pf'.fix_result.numeric
    /\ pf'.fix_result.confidence >= config.fix_min_confidence

\* C3: once max_prs_per_hour pull requests were created in the window, a
\* _check_rate_limit("pr") made before rate_limit_reset_time returns false (no
\* branch is created); one made at or after rate_limit_reset_time sets
\* prs_created_this_hour to zero and returns true (_create_fix_pr goes on).
C3_PrLimitHoldsUntilReset ==
    [][PrCheckStep =>
          /\ (window.prs = config.max_prs_per_hour /\ now < rate_limit_reset_time)
                => pf'.pc # "create_branch"
          /\ (now >= rate_limit_reset_time)
                => (prs_created_this_hour' = 0 /\ pf'.pc = "create_branch")]_vars

\* a fix that passed both gates was turned away by the "pr" limit
C3_Witness ==
    /\ pf.pc = "returned"
    /\ FixGatesPassed
    /\ ~PrAttempted
    /\ window.prs = config.max_prs_per_hour
    /\ now < rate_limit_reset_time

\* pull requests created / comments posted during the last hour
RECURSIVE RecentPrsUpTo(_)
RecentPrsUpTo(t) == IF t = 0 THEN 0 ELSE recent[t].prs + RecentPrsUpTo(t - 1)

RECURSIVE RecentCommentsUpTo(_)
RecentCommentsUpTo(t) ==
    IF t = 0 THEN 0 ELSE recent[t].comments + RecentCommentsUpTo(t - 1)

RecentPrs == RecentPrsUpTo(Hour)
RecentComments == RecentCommentsUpTo(Hour)

\* C4 as claimed: every interval of one hour holds at most max_prs_per_hour
\* pull-request creations and at most max_comments_per_hour posted comments.
C4_RollingHourBound ==
    /\ RecentPrs <= config.max_prs_per_hour
    /\ RecentComments <= config.max_comments_per_hour

\* C4 as amended: between two consecutive resets of the counters at most
\* max_prs_per_hour pull requests are created and at most
\* max_comments_per_hour comments are posted.
C4_WindowBound ==
    /\ window.prs <= config.max_prs_per_hour
    /\ window.comments <= config.max_comments_per_hour

\* the window that follows a reset is full of pull requests
C4_Witness ==
    /\ rate_limit_reset_time > Hour
    /\ window.prs = config.max_prs_per_hour

\* C5 as claimed: comments_posted_this_hour grows by one only in a step whose
\* add_comment succeeded, prs_created_this_hour only in a step whose
\* create_pull_request returned a pull request.
C5_CountersFollowSuccess ==
    [][/\ (comments_posted_this_hour' = comments_posted_this_hour + 1)
              => (window'.comments = window.comments + 1)
       /\ (prs_created_this_hour' = prs_created_this_hour + 1)
              => (window'.prs = window.prs + 1)]_vars

\* C6: an exception of process_finding is caught at the loop, adds exactly one
\* to stats["errors"], and the loop goes on: process_finding is invoked for
\* every finding of the batch, in order.
C6_BatchSurvivesExceptions ==
    /\ stats.errors = raised
    /\ Len(invoked) <= Len(findings)
    /\ invoked = SubSeq(findings, 1, Len(invoked))
    /\ (main_pc = "processing")
          => Len(invoked) = (IF pf.pc = "idle" THEN idx - 1 ELSE idx)
    /\ (main_pc \in {"done", "sleep"}) => invoked = findings

\* a batch of two findings ended although both invocations raised
C6_Witness ==
    /\ main_pc \in {"done", "sleep"}
    /\ Len(findings) = 2
    /\ invoked = findings
    /\ raised = 2

\* C7: when neither the finding source nor the code host yields a code
\* context, process_finding returns having called no analyzer, posted no
\* comment, made no transition and no branch/commit/PR, with both rate-limit
\* counters as they were on entry.
C7_NoContextNoSideEffect ==
    (pf.pc = "returned" /\ ~pf.code_context) =>
        /\ \A i \in DOMAIN calls : calls[i] \in {"get_source_code", "get_file_contents"}
        /\ prs_created_this_hour = pf.entry.prs
        /\ comments_posted_this_hour = pf.entry.comments
        /\ pf.escalated = "none"

\* both sources were tried and failed, with a comment already counted
C7_Witness ==
    /\ pf.pc = "returned"
    /\ ~pf.code_context
    /\ calls = <<"get_source_code", "get_file_contents">>
    /\ pf.entry.comments > 0

\* C8: a true verdict with confidence >= min_confidence ends the finding in
\* _handle_false_positive: no risk assessment, no risk or escalation comment,
\* no fix generation, no pull request, with or without the transition.
C8_FalsePositiveIsTerminal ==
    FpVerdictPassed =>
        /\ pf.pc \in {"fp_add_comment", "transition_issue", "returned", "raised"}
        /\ \A i \in DOMAIN calls :
              calls[i] \in {"get_source_code", "get_file_contents", "get_rule_details",
                            "analyze", "add_comment:fp", "transition_issue"}
        /\ pf.priority = "none"
        /\ pf.escalated = "none"
        /\ ~pf.fix_result.present

\* a false positive was handled and left open, without the transition
C8_Witness ==
    /\ FpVerdictPassed
    /\ pf.pc = "returned"
    /\ Has("add_comment:fp")
    /\ ~Has("transition_issue")

\* C9 as claimed: a finding whose priority is in the auto-fix set ends with a
\* pull request created or with an escalation.
C9_PrOrEscalation ==
    (pf.pc = "returned" /\ pf.priority \in config.auto_fix_priorities)
        => (Has("create_pull_request") \/ pf.escalated # "none")

\* C10 as claimed: the reason is "Low confidence fix" exactly when generate_fix
\* returned a FixResult, "Complex fix required" exactly when it returned nothing.
C10_ReasonByExistence ==
    (pf.escalated # "none") =>
        /\ (pf.escalated = "Low confidence fix") <=> pf.fix_result.present
        /\ (pf.escalated = "Complex fix required") <=> ~pf.fix_result.present

\* C10 as amended: the reason is "Low confidence fix" exactly when the
\* FixResult exists, is safe and falls short of the confidence threshold;
\* "Complex fix required" exactly when there is no FixResult or it is not safe.
C10_ReasonBySafety ==
    (pf.escalated # "none") =>
        /\ pf.priority \in config.auto_fix_priorities
        /\ (pf.escalated = "Low confidence fix")
              <=> (/\ pf.fix_result.present
                   /\ pf.fix_result.is_safe
                   /\ pf.fix_result.confidence < config.fix_min_confidence)
        /\ (pf.escalated = "Complex fix required")
              <=> (~pf.fix_result.present \/ ~pf.fix_result.is_safe)

\* an existing but unsafe FixResult was escalated as "Complex fix required"
C10_Witness ==
    /\ pf.escalated = "Complex fix required"
    /\ pf.fix_result.present

\* =================================================================== analyzers
\* The three analyzers, computed as their code computes them.  Scores are kept
\* exact: a confidence is an integer percentage and a risk score is counted in
\* ten-thousandths (8.0 is 80000), so that e * i * x / 100.0 * confidence is
\* e * i * x * percentage.

\* ------------------------------------------------------------ analyzer inputs
\* A rule key, seen through the two matches the analyzers make on its text:
\* category is the first RULE_EXPLOITABILITY key whose text (without '_') occurs
\* in the lower-cased key without ':' and '-'; pattern is the first
\* FIXABLE_PATTERNS entry one of whose indicators occurs in the upper-cased key.
RuleKeys ==
    {[text |-> "java:S2259", category |-> "none", pattern |-> "null_pointer"],
     [text |-> "custom:sql-injection", category |-> "sql_injection", pattern |-> "none"],
     [text |-> "java:S1481", category |-> "none", pattern |-> "none"]}

\* rule_details: None or without "type" ("none"), or the declared rule type
RuleTypes == {"none", "VULNERABILITY", "SECURITY_HOTSPOT", "BUG", "CODE_SMELL"}

Severities == {"CRITICAL", "HIGH", "MEDIUM", "LOW", "BLOCKER"}

HIGH_IMPACT_PATHS ==
    {"payment", "auth", "login", "user", "account", "billing", "order",
     "transaction", "admin", "security"}

MEDIUM_IMPACT_PATHS == {"api", "service", "controller", "handler"}

LOW_IMPACT_PATHS == {"test", "mock", "util", "helper", "config"}

\* A file path, seen through the path keywords that occur in its lower-cased
\* text and through its extension.
PathKeywords == {"user", "service", "test", "util"}

Extensions == {".java", ".kt", ".py", ".txt"}

FilePaths == [keywords : SUBSET PathKeywords, ext : Extensions]

\* A code context as the risk assessor reads it: the sensitive-operation
\* keywords its lower-cased text contains, and whether it holds a public
\* entry-point marker, 'private ' / 'internal ', an authorization marker.
ContextKeywords == {"password", "credit_card"}

CodeContexts ==
    [sensitive : SUBSET ContextKeywords, api : BOOLEAN, private : BOOLEAN,
     auth : BOOLEAN]

\* ------------------------------------------------------ the model backend
\* A value the JSON of a response carries under a key: absent, a number, or
\* something that is not a number (a string, null).
Absent == [present |-> FALSE, numeric |-> FALSE, value |-> 0]
Number(n) == [present |-> TRUE, numeric |-> TRUE, value |-> n]
NotANumber == [present |-> TRUE, numeric |-> FALSE, value |-> 0]

\* The text of a response is a sequence of tokens: the braces, white space,
\* "members" (what stands between the braces of a JSON object), "42" (a JSON
\* value that is no object) and "prose" (brace-free text that is no JSON).
Whitespace == {" ", "\n"}

\* str.strip()
RECURSIVE strip(_)
strip(code) ==
    IF code = << >> THEN code
    ELSE IF Head(code) \in Whitespace THEN strip(Tail(code))
    ELSE IF code[Len(code)] \in Whitespace
         THEN strip(SubSeq(code, 1, Len(code) - 1))
    ELSE code

\* str.find / str.rfind, counting from 0, -1 when the token is not there
find(text, token) ==
    IF \E i \in DOMAIN text : text[i] = token
    THEN (CHOOSE i \in DOMAIN text :
              text[i] = token /\ \A j \in 1..(i - 1) : text[j] # token) - 1
    ELSE -1

rfind(text, token) ==
    IF \E i \in DOMAIN text : text[i] = token
    THEN (CHOOSE i \in DOMAIN text :
              text[i] = token /\ \A j \in (i + 1)..Len(text) : text[j] # token) - 1
    ELSE -1

\* json.loads on a text: "object" for { members } and {}, "scalar" for 42,
\* both with white space around them, "error" (JSONDecodeError) otherwise
loads(text) ==
    LET json == strip(text)
    IN  IF json \in {<<"{", "members", "}">>, <<"{", "}">>} THEN "object"
        ELSE IF json = <<"42">> THEN "scalar"
        ELSE "error"

\* strip, find('{'), rfind('}') + 1 and json.loads of the three analyzers: the
\* span from the first '{' to the last '}' when there is one, the whole text
\* otherwise
loads_outer_span(text) ==
    LET response  == strip(text)
        start_idx == find(response, "{")
        end_idx   == rfind(response, "}") + 1
    IN  IF start_idx >= 0 /\ end_idx > start_idx
        THEN loads(SubSeq(response, start_idx + 1, end_idx))
        ELSE loads(response)

\* llm_client.generate raised
Raises == [raises |-> TRUE, text |-> << >>, data |-> << >>]

\* text without braces that is no JSON ("I cannot help with that")
Prose == [raises |-> FALSE, text |-> <<"prose">>, data |-> << >>]

\* text without braces that is JSON, though no object ("42")
Scalar == [raises |-> FALSE, text |-> <<"42">>, data |-> << >>]

\* text whose span from the first '{' to the last '}' is no JSON
Broken == [raises |-> FALSE, text |-> <<"{", "prose", "}">>, data |-> << >>]

\* the text of the JSON object data, alone
Object(data) == [raises |-> FALSE, text |-> <<"{", "members", "}">>, data |-> data]

\* the texts around one JSON object that are explored: brace-free prose and
\* white space before it, after it and on both sides
Wrappings ==
    {[before |-> <<"prose", " ">>, after |-> << >>],
     [before |-> << >>, after |-> <<"\n", "prose">>],
     [before |-> <<" ", "prose", "\n">>, after |-> <<" ", "prose", "\n">>]}

\* the response with its JSON object wrapped in prose
Wrap(response, w) == [response EXCEPT !.text = w.before \o @ \o w.after]

\* json.loads on the text chosen by find('{') / rfind('}').  kind is "error"
\* (JSONDecodeError), "object" (a dict, holding the response's data) or
\* "scalar" (any other JSON value).
loads_outer_braces(response) ==
    LET kind == loads_outer_span(response.text)
    IN  IF kind = "object" THEN [kind |-> "object", data |-> response.data]
        ELSE [kind |-> kind, data |-> << >>]

\* ------------------------------------------------------------ risk assessor
Min(a, b) == IF a <= b THEN a ELSE b
Max(a, b) == IF a >= b THEN a ELSE b

RULE_EXPLOITABILITY ==
    [sql_injection |-> 10, code_injection |-> 10, command_injection |-> 10,
     deserialization |-> 9, auth_bypass |-> 9, privilege_escalation |-> 8,
     session_fixation |-> 8, xss |-> 7, path_traversal |-> 7, xxe |-> 8,
     ssrf |-> 7, weak_crypto |-> 6, hardcoded_secret |-> 6,
     insecure_random |-> 5, null_pointer |-> 3, resource_leak |-> 4,
     race_condition |-> 5]

\* severity_map.get(finding.severity, 5)
severity_map(severity) ==
    CASE severity = "CRITICAL" -> 8
      [] severity = "HIGH"     -> 6
      [] severity = "MEDIUM"   -> 4
      [] severity = "LOW"      -> 2
      [] OTHER                 -> 5

\* _calculate_exploitability: the rule category, then the rule type (the
\* lower-cased type contains "vulnerability", "security", "bug"), then the
\* severity
calculate_exploitability(rule_key, rule_type, severity) ==
    IF rule_key.category # "none" THEN RULE_EXPLOITABILITY[rule_key.category]
    ELSE IF rule_type = "VULNERABILITY" THEN 7
    ELSE IF rule_type = "SECURITY_HOTSPOT" THEN 6
    ELSE IF rule_type = "BUG" THEN 4
    ELSE severity_map(severity)

sensitive_keywords ==
    [password |-> 9, credit_card |-> 10, ssn |-> 10, encrypt |-> 8,
     decrypt |-> 8, token |-> 7, session |-> 7, database |-> 7, sql |-> 7]

\* lines 245-247: the score raised to the score of every keyword of the set
RECURSIVE raise_to_keywords(_, _)
raise_to_keywords(score, keywords) ==
    IF keywords = {} THEN score
    ELSE LET keyword == CHOOSE k \in keywords : TRUE
         IN  raise_to_keywords(Max(score, sensitive_keywords[keyword]),
                               keywords \ {keyword})

\* lines 209-229: the score the file path gives
path_impact(file_path) ==
    LET high   == IF file_path.keywords \cap HIGH_IMPACT_PATHS # {} THEN 9 ELSE 5
        medium == IF high = 5 /\ file_path.keywords \cap MEDIUM_IMPACT_PATHS # {}
                  THEN 6 ELSE high
    IN  IF file_path.keywords \cap LOW_IMPACT_PATHS # {} THEN Min(medium, 3)
        ELSE medium

\* _calculate_impact with the low-impact cap applied last
calculate_impact_capped_last(file_path, code_context) ==
    LET high   == IF file_path.keywords \cap HIGH_IMPACT_PATHS # {} THEN 9 ELSE 5
        medium == IF high = 5 /\ file_path.keywords \cap MEDIUM_IMPACT_PATHS # {}
                  THEN 6 ELSE high
        raised_to == raise_to_keywords(medium, code_context.sensitive)
    IN  IF file_path.keywords \cap LOW_IMPACT_PATHS # {} THEN Min(raised_to, 3)
        ELSE Min(raised_to, 10)

\* _calculate_impact
calculate_impact(file_path, code_context) ==
    Min(raise_to_keywords(path_impact(file_path), code_context.sensitive), 10)

\* _calculate_exposure with the test-code check made first
calculate_exposure_test_first(file_path, code_context) ==
    LET test     == IF "test" \in file_path.keywords THEN 1 ELSE 5
        api      == IF code_context.api THEN 9 ELSE test
        internal == IF code_context.private THEN Min(api, 5) ELSE api
        guarded  == IF code_context.auth THEN Max(1, internal - 3) ELSE internal
    IN  Min(guarded, 10)

\* _calculate_exposure
calculate_exposure(file_path, code_context) ==
    LET api      == IF code_context.api THEN 9 ELSE 5
        internal == IF code_context.private THEN Min(api, 5) ELSE api
        test     == IF "test" \in file_path.keywords THEN 1 ELSE internal
        guarded  == IF code_context.auth THEN Max(1, test - 3) ELSE test
    IN  Min(guarded, 10)

\* _calculate_priority with > in place of >=
calculate_priority_above(risk_score) ==
    IF risk_score > 80000 THEN "P0"
    ELSE IF risk_score > 60000 THEN "P1"
    ELSE IF risk_score > 40000 THEN "P2"
    ELSE "P3"

\* _calculate_priority
calculate_priority(risk_score) ==
    IF risk_score >= 80000 THEN "P0"
    ELSE IF risk_score >= 60000 THEN "P1"
    ELSE IF risk_score >= 40000 THEN "P2"
    ELSE "P3"

\* _calculate_sla
calculate_sla(priority) ==
    CASE priority = "P0" -> "24 hours"
      [] priority = "P1" -> "1 week"
      [] priority = "P2" -> "2 weeks"
      [] priority = "P3" -> "1 month"
      [] OTHER           -> "2 weeks"

\* confidences (percent) the model backend reports to the risk assessor
RiskConfidences == {0, 50, 80, 100}

\* What llm_client.generate hands to _get_contextual_analysis.
RiskResponses ==
    {Raises, Prose, Scalar, Broken}
    \cup {Object([confidence |-> c, justification |-> "model"]) :
              c \in {Absent, NotANumber} \cup {Number(n) : n \in RiskConfidences}}
    \cup {Wrap(Object([confidence |-> Number(50), justification |-> "model"]), w) :
              w \in Wrappings}

\* an answer to the risk prompt whose confidence is no number
NotANumberAnswer == Object([confidence |-> NotANumber, justification |-> "model"])

\* lines 355-361: the dictionary returned when the call or the parsing failed
fallback_analysis ==
    [kind |-> "object",
     data |-> [confidence |-> Number(70), justification |-> "fallback"]]

\* _get_contextual_analysis: what json.loads returned (a dict, or another JSON
\* value when the text without braces is JSON), or the fallback dictionary
get_contextual_analysis(response) ==
    IF response.raises THEN fallback_analysis
    ELSE LET parsed == loads_outer_braces(response)
         IN  IF parsed.kind = "error" THEN fallback_analysis ELSE parsed

\* lines 158-171: the assessment returned when anything raised inside assess
error_assessment ==
    [risk_score |-> 70000, priority |-> "P1", exploitability |-> 7,
     impact |-> 7, exposure |-> 7, confidence |-> 50,
     justification |-> "error", recommended_sla |-> "1 week", present |-> TRUE]

\* RiskAssessor.assess.  contextual_analysis.get raises AttributeError on a
\* value that is no dict, and line 138 raises TypeError on a confidence that
\* is no number: both end in the except clause of line 158.
assess(finding, code_context, rule_type, response) ==
    LET exploitability == calculate_exploitability(finding.rule_key, rule_type,
                                                   finding.severity)
        impact         == calculate_impact(finding.file_path, code_context)
        exposure       == calculate_exposure(finding.file_path, code_context)
        contextual     == get_contextual_analysis(response)
    IN  IF contextual.kind # "object" THEN error_assessment
        ELSE LET confidence == IF contextual.data.confidence.present
                               THEN contextual.data.confidence
                               ELSE Number(80)
                 risk_score == exploitability * impact * exposure * confidence.value
                 priority   == calculate_priority(risk_score)
             IN  IF ~confidence.numeric THEN error_assessment
                 ELSE [risk_score      |-> risk_score,
                       priority        |-> priority,
                       exploitability  |-> exploitability,
                       impact          |-> impact,
                       exposure        |-> exposure,
                       confidence      |-> confidence.value,
                       justification   |-> contextual.data.justification,
                       recommended_sla |-> calculate_sla(priority),
                       present         |-> TRUE]

\* ------------------------------------------------- false-positive detector
\* numbers outside [0,1] a model can write under "confidence": -1, 5 and 95
OutOfRangeConfidences == {-100, 500, 9500}

\* What llm_client.generate hands to FalsePositiveDetector.analyze.  evidence_ok
\* is FALSE when "evidence" is JSON null.
FpResponses ==
    {Raises, Prose, Scalar, Broken}
    \cup {Object([is_false_positive |-> v, confidence |-> c, evidence_ok |-> TRUE]) :
              v \in BOOLEAN,
              c \in {Absent, NotANumber}
                    \cup {Number(n) : n \in FpConfidences \cup OutOfRangeConfidences}}
    \cup {Object([is_false_positive |-> TRUE, confidence |-> Number(95),
                  evidence_ok |-> FALSE])}
    \cup {Wrap(Object([is_false_positive |-> TRUE, confidence |-> Number(95),
                       evidence_ok |-> TRUE]), w) : w \in Wrappings}

\* lines 191-200: the result of _parse_response on a JSONDecodeError
ParseFailureAnalysis ==
    [present |-> TRUE, is_false_positive |-> FALSE, confidence |-> 0,
     evidence_ok |-> TRUE, recommendation |-> "Manual review required"]

\* the analysis lines 183-189 build from the parsed dictionary, the
\* confidence taken as given
analysis_of(data, confidence) ==
    [present |-> TRUE, is_false_positive |-> data.is_false_positive,
     confidence |-> confidence, evidence_ok |-> data.evidence_ok,
     recommendation |-> "model"]

\* _parse_response with a confidence that is no number read as 0.0
parse_response_keeping_verdict(response) ==
    LET parsed == loads_outer_braces(response)
    IN  IF parsed.kind = "error"
        THEN [raised |-> FALSE, analysis |-> ParseFailureAnalysis]
        ELSE IF parsed.kind = "scalar"
        THEN [raised |-> TRUE, analysis |-> NoAnalysis]
        ELSE [raised |-> FALSE,
              analysis |-> analysis_of(parsed.data, parsed.data.confidence.value)]

\* _parse_response, on the text of a response: it returns an analysis, or
\* raises what is no JSONDecodeError (AttributeError of .get on a value that is
\* no dict, ValueError / TypeError of float() on a confidence that is no number)
parse_response(response) ==
    LET parsed == loads_outer_braces(response)
    IN  IF parsed.kind = "error"
        THEN [raised |-> FALSE, analysis |-> ParseFailureAnalysis]
        ELSE IF parsed.kind = "scalar"
        THEN [raised |-> TRUE, analysis |-> NoAnalysis]
        ELSE IF parsed.data.confidence.present /\ ~parsed.data.confidence.numeric
        THEN [raised |-> TRUE, analysis |-> NoAnalysis]
        ELSE [raised |-> FALSE,
              analysis |-> analysis_of(parsed.data, parsed.data.confidence.value)]

\* FalsePositiveDetector.analyze: lines 58-98
analyze(response) ==
    IF response.raises THEN ConservativeAnalysis
    ELSE LET parsed == parse_response(response)
         IN  IF parsed.raised THEN ConservativeAnalysis ELSE parsed.analysis

\* ------------------------------------------------------------ fix generator
MaxCodeLen == 3           \* longest fixed code, in tokens, the model explores

\* Code is a sequence of tokens: the characters the validation looks at, an
\* error-handling keyword, an assignment and a token without any meaning.
CodeTokens ==
    {"{", "}", "(", ")", "[", "]", "\"", "'", "\\", "try", "x =", "y"}
    \cup Whitespace

RECURSIVE SeqsUpTo(_, _)
SeqsUpTo(S, n) ==
    IF n = 0 THEN {<< >>}
    ELSE LET shorter == SeqsUpTo(S, n - 1)
         IN  shorter \cup {Append(c, t) : c \in {d \in shorter : Len(d) = n - 1},
                                          t \in S}

\* the code contexts the fixes are generated for
OriginalCodes ==
    {<<"y">>,
     <<"try", "\n", "x =">>,
     <<" ", "y", "\n">>}

FixedCodes == SeqsUpTo(CodeTokens, MaxCodeLen)

\* code.count(token)
Count(code, token) == Cardinality({i \in DOMAIN code : code[i] = token})

\* len(code.splitlines())
line_count(code) ==
    Count(code, "\n")
    + (IF Len(code) > 0 /\ code[Len(code)] # "\n" THEN 1 ELSE 0)

\* sum(1 for kw in error_handling_keywords if kw in code.lower())
error_handling(code) == IF Count(code, "try") > 0 THEN 1 ELSE 0

\* len(re.findall(r'\w+\s*=', code))
assignments(code) == Count(code, "x =")

\* len(re.findall(r'(?<!\\)q', code)) for the quote character q
unescaped(code, quote) ==
    Cardinality({i \in DOMAIN code :
                    code[i] = quote /\ (i = 1 \/ code[i - 1] # "\\")})

\* _detect_language of the fix generator
detect_language(ext) ==
    CASE ext = ".java" -> "java"
      [] ext = ".kt"   -> "kotlin"
      [] ext = ".py"   -> "python"
      [] ext = ".js"   -> "javascript"
      [] ext = ".ts"   -> "typescript"
      [] ext = ".go"   -> "go"
      [] ext = ".rs"   -> "rust"
      [] ext = ".cpp"  -> "cpp"
      [] ext = ".c"    -> "c"
      [] ext = ".cs"   -> "csharp"
      [] OTHER         -> "unknown"

\* line 401: the languages whose braces and parentheses are counted
BraceCheckedLanguages ==
    {"java", "javascript", "typescript", "c", "cpp", "csharp", "go"}

\* _has_obvious_syntax_errors
has_obvious_syntax_errors(code, language) ==
    \/ /\ language \in BraceCheckedLanguages
       /\ \/ Count(code, "{") # Count(code, "}")
          \/ Count(code, "(") # Count(code, ")")
    \/ Count(code, "[") # Count(code, "]")
    \/ unescaped(code, "\"") % 2 # 0
    \/ unescaped(code, "'") % 2 # 0

Abs(n) == IF n < 0 THEN -n ELSE n

\* lines 342-373: the warnings of checks 1 to 3
warnings_of(original, fixed) ==
    (IF 2 * Abs(line_count(fixed) - line_count(original)) > line_count(original)
     THEN {"Significant size change"} ELSE {})
    \cup (IF error_handling(fixed) < error_handling(original)
          THEN {"Error handling may have been removed"} ELSE {})
    \cup (IF 5 * assignments(fixed) < 4 * assignments(original)
          THEN {"Significant logic may have been removed"} ELSE {})

\* lines 375-385 with the codes compared as they are at line 382
checks_failed_untrimmed(original, fixed, language) ==
    (IF has_obvious_syntax_errors(fixed, language)
     THEN {"Potential syntax errors detected"} ELSE {})
    \cup (IF original = fixed THEN {"No changes were made"} ELSE {})

\* lines 375-385: the failed checks 4 and 5
checks_failed_of(original, fixed, language) ==
    (IF has_obvious_syntax_errors(fixed, language)
     THEN {"Potential syntax errors detected"} ELSE {})
    \cup (IF strip(original) = strip(fixed)
          THEN {"No changes were made"} ELSE {})

\* line 388 with <= in place of <
is_safe_up_to_two_warnings(checks_failed, warnings) ==
    checks_failed = {} /\ Cardinality(warnings) <= 2

\* line 388
is_safe(checks_failed, warnings) ==
    checks_failed = {} /\ Cardinality(warnings) < 2

\* _validate_fix
validate_fix(original, fixed, language) ==
    LET checks_failed == checks_failed_of(original, fixed, language)
        warnings      == warnings_of(original, fixed)
    IN  [is_safe       |-> is_safe(checks_failed, warnings),
         checks_failed |-> checks_failed,
         warnings      |-> warnings]

\* What llm_client.generate hands to generate_fix: the failures, an object
\* without "fixed_code", and objects with a fixed code and a confidence.
FixResponses ==
    {Raises, Prose, Scalar, Broken,
     Object([has_fixed_code |-> FALSE, fixed_code |-> << >>,
             confidence |-> Number(95)])}
    \cup {Object([has_fixed_code |-> TRUE, fixed_code |-> code,
                  confidence |-> Number(95)]) : code \in FixedCodes}
    \cup {Object([has_fixed_code |-> TRUE, fixed_code |-> <<"y", "y">>,
                  confidence |-> c]) : c \in {Absent, NotANumber, Number(80)}}
    \cup {Wrap(Object([has_fixed_code |-> TRUE, fixed_code |-> <<"y", "y">>,
                       confidence |-> Number(95)]), w) : w \in Wrappings}

\* FixGenerator.generate_fix.  None (NoFix) when the rule is not fixable, when
\* the call raised, when the text is no JSON (_parse_fix_response returns None)
\* and when building the result raised (a value that is no dict or has no
\* "fixed_code": TypeError / KeyError, caught at line 147).
generate_fix(finding, original, response) ==
    IF finding.rule_key.pattern = "none" \/ response.raises THEN NoFix
    ELSE LET parsed == loads_outer_braces(response)
         IN  IF parsed.kind # "object" THEN NoFix
             ELSE IF ~parsed.data.has_fixed_code THEN NoFix
             ELSE LET validation ==
                          validate_fix(original, parsed.data.fixed_code,
                                       detect_language(finding.file_path.ext))
                      confidence == IF parsed.data.confidence.present
                                    THEN parsed.data.confidence
                                    ELSE Number(80)
                  IN  [present       |-> TRUE,
                       is_safe       |-> validation.is_safe,
                       confidence    |-> confidence.value,
                       numeric       |-> confidence.numeric,
                       fixed_code    |-> parsed.data.fixed_code,
                       checks_failed |-> validation.checks_failed,
                       warnings      |-> validation.warnings]

\* ------------------------------------------------ findings and model stubs
\* A finding as the analyzers see it, with the code around it (code_context as
\* the risk assessor reads it, code as the fix validation reads it: the lines
\* line - 20 .. line + 20 of a file that has file_before above and file_after
\* below them), the rule
\* type of its rule details and what the model backend answers to each of the
\* three prompts.

\* java:S2259, HIGH, src/main/UserService.java, a context without markers
ScenarioA ==
    [rule_key      |-> [text |-> "java:S2259", category |-> "none",
                        pattern |-> "null_pointer"],
     severity      |-> "HIGH",
     file_path     |-> [keywords |-> {"user", "service"}, ext |-> ".java"],
     code_context  |-> [sensitive |-> {}, api |-> FALSE, private |-> FALSE,
                        auth |-> FALSE],
     code          |-> <<"y">>,
     file_before   |-> <<"x =", "\n">>,
     file_after    |-> <<"\n", "y">>,
     rule_type     |-> "none",
     fp_response   |-> Object([is_false_positive |-> FALSE,
                               confidence |-> Number(95), evidence_ok |-> TRUE]),
     risk_response |-> Object([confidence |-> Number(100),
                               justification |-> "model"]),
     fix_response  |-> Object([has_fixed_code |-> TRUE,
                               fixed_code |-> <<"y", "y">>,
                               confidence |-> Number(95)]),
     call          |-> "none"]

\* The calls of the analyzers that are explored one by one: every answer to
\* the false-positive prompt; every rule, rule type, severity, path, context
\* and answer to the risk prompt; every language, original code and answer to
\* the fix prompt.
AnalyzeCalls ==
    {[ScenarioA EXCEPT !.call = "analyze", !.fp_response = r] : r \in FpResponses}

AssessCalls ==
    {[ScenarioA EXCEPT !.call = "assess", !.rule_key = k, !.rule_type = t,
                       !.severity = v, !.file_path.keywords = w,
                       !.code_context = c, !.risk_response = r] :
        k \in RuleKeys, t \in RuleTypes, v \in {"CRITICAL", "BLOCKER"},
        w \in SUBSET PathKeywords, c \in CodeContexts, r \in RiskResponses}

GenerateFixCalls ==
    {[ScenarioA EXCEPT !.call = "generate_fix", !.file_path.ext = e,
                       !.code = o, !.fix_response = r] :
        e \in Extensions, o \in OriginalCodes, r \in FixResponses}
    \cup {[ScenarioA EXCEPT !.call = "generate_fix",
                            !.rule_key = [text |-> "java:S1481",
                                          category |-> "none",
                                          pattern |-> "none"]]}

\* the explored calls of one analyzer
AnalyzerCalls(name) ==
    CASE name = "analyze"      -> AnalyzeCalls
      [] name = "assess"       -> AssessCalls
      [] name = "generate_fix" -> GenerateFixCalls

\* ---------------------------------------------- the analyzers, one by one
\* Each analyzer called once, on one finding, as its caller calls it.
AnalyzerInit ==
    /\ config = DefaultConfig
    /\ mode = "analyzer"
    /\ now = 0
    /\ prs_created_this_hour = 0
    /\ comments_posted_this_hour = 0
    /\ rate_limit_reset_time = now + Hour
    /\ stats = [findings_analyzed |-> 0, false_positives_detected |-> 0,
                fixes_generated |-> 0, prs_created |-> 0, errors |-> 0]
    /\ main_pc = "analyzer"
    /\ last_run_time = -1
    /\ polls = 0
    /\ \E name \in {"analyze", "assess", "generate_fix"} :
          \E finding \in AnalyzerCalls(name) : findings = <<finding>>
    /\ idx = 1
    /\ pf = IdleFrame
    /\ calls = << >>
    /\ invoked = << >>
    /\ raised = 0
    /\ window = [prs |-> 0, comments |-> 0]
    /\ recent = [t \in 1..Hour |-> [prs |-> 0, comments |-> 0]]
    /\ source = NoSource

AnalyzerVars ==
    <<config, mode, source, now, prs_created_this_hour, comments_posted_this_hour,
      rate_limit_reset_time, stats, main_pc, last_run_time, polls, findings,
      idx, invoked, raised, window, recent>>

AnalyzerCall(name) ==
    /\ main_pc = "analyzer"
    /\ pf.pc = "idle"
    /\ findings[idx].call = name
    /\ calls' = <<name>>
    /\ UNCHANGED AnalyzerVars

analyze_call ==
    /\ AnalyzerCall("analyze")
    /\ pf' = [pf EXCEPT !.pc = "returned",
                        !.fp_analysis = analyze(findings[idx].fp_response)]

assess_call ==
    /\ AnalyzerCall("assess")
    /\ LET risk == assess(findings[idx], findings[idx].code_context,
                          findings[idx].rule_type, findings[idx].risk_response)
       IN  pf' = [pf EXCEPT !.pc = "returned", !.risk = risk,
                            !.priority = risk.priority]

generate_fix_call ==
    /\ AnalyzerCall("generate_fix")
    /\ pf' = [pf EXCEPT !.pc = "returned",
                        !.fix_result = generate_fix(findings[idx],
                                                    findings[idx].code,
                                                    findings[idx].fix_response)]

AnalyzerNext ==
    \/ analyze_call
    \/ assess_call
    \/ generate_fix_call

AnalyzerSpec == AnalyzerInit /\ [][AnalyzerNext]_vars

\* ------------------------------------------------ properties of the analyzers
\* the finding process_finding (or the analyzer's caller) is working on
Finding == findings[idx]

\* assess has returned for the current finding
Assessed == Has("assess") /\ pf.risk.present

\* assess returned the assessment of its except clause
AssessFailed == Assessed /\ pf.risk.justification = "error"

\* C12 as claimed: every returned RiskAssessment has risk_score =
\* exploitability * impact * exposure / 100 * confidence, on every return path.
C12_ScoreIsProduct ==
    Assessed =>
        pf.risk.risk_score
            = pf.risk.exploitability * pf.risk.impact * pf.risk.exposure
              * pf.risk.confidence

\* the tier of a score, by the breakpoints 8 / 6 / 4
Tier(risk_score) ==
    CASE risk_score >= 80000 -> 0
      [] risk_score >= 60000 /\ risk_score < 80000 -> 1
      [] risk_score >= 40000 /\ risk_score < 60000 -> 2
      [] OTHER -> 3

TierName == <<"P0", "P1", "P2", "P3">>

TierSla == <<"24 hours", "1 week", "2 weeks", "1 month">>

\* the scores around the breakpoints and the ends of the range
ScoreSamples ==
    {0, 39999, 40000, 40001, 59999, 60000, 60001, 79999, 80000, 80001, 100000}

\* C13: the priority of every returned RiskAssessment is the step function of
\* its risk_score with the breakpoints 8 / 6 / 4 (>= 8 P0, >= 6 P1, >= 4 P2,
\* else P3), a higher score never gets a less urgent tier, and recommended_sla
\* is the SLA of that priority (24 hours, 1 week, 2 weeks, 1 month).
C13_PriorityStepFunction ==
    Assessed =>
        /\ pf.risk.priority = TierName[Tier(pf.risk.risk_score) + 1]
        /\ pf.risk.recommended_sla = TierSla[Tier(pf.risk.risk_score) + 1]
        /\ \A score \in ScoreSamples :
              /\ (score >= pf.risk.risk_score)
                    => \E t \in 0..Tier(pf.risk.risk_score) :
                          calculate_priority(score) = TierName[t + 1]
              /\ calculate_sla(calculate_priority(score))
                    = TierSla[Tier(score) + 1]

\* an assessment whose score is exactly a breakpoint (6.0)
C13_Witness ==
    /\ Assessed
    /\ pf.risk.risk_score = 60000
    /\ pf.risk.priority = "P1"

\* the model-backend call of the risk assessor failed: it raised, or its text
\* holds no JSON object
RiskCallFailed ==
    \/ Finding.risk_response.raises
    \/ loads_outer_braces(Finding.risk_response).kind # "object"

\* C14 as claimed: when the model-backend call fails, assess still returns the
\* heuristic exploitability, impact and exposure, with the default confidence
\* 0.8 and the generic fallback justification.
C14_FallbackConfidence ==
    (Assessed /\ RiskCallFailed) =>
        /\ pf.risk.exploitability
              = calculate_exploitability(Finding.rule_key, Finding.rule_type,
                                         Finding.severity)
        /\ pf.risk.impact = calculate_impact(Finding.file_path, Finding.code_context)
        /\ pf.risk.exposure
              = calculate_exposure(Finding.file_path, Finding.code_context)
        /\ pf.risk.confidence = 80
        /\ pf.risk.justification = "fallback"

\* generate_fix has returned a FixResult for the current finding
FixValidated == Has("generate_fix") /\ pf.fix_result.present

\* C15: is_safe of every FixValidation is true if and only if checks_failed
\* is empty and there are fewer than two warnings.
C15_SafeIffNoFailureFewWarnings ==
    FixValidated =>
        (pf.fix_result.is_safe
            <=> (/\ pf.fix_result.checks_failed = {}
                 /\ Cardinality(pf.fix_result.warnings) < 2))

\* a fix without failed check that two warnings make unsafe
C15_Witness ==
    /\ FixValidated
    /\ pf.fix_result.checks_failed = {}
    /\ Cardinality(pf.fix_result.warnings) = 2
    /\ ~pf.fix_result.is_safe

\* braces, parentheses or brackets do not pair up, or a quote is left open
Unbalanced(code) ==
    \/ Count(code, "{") # Count(code, "}")
    \/ Count(code, "(") # Count(code, ")")
    \/ Count(code, "[") # Count(code, "]")
    \/ unescaped(code, "\"") % 2 = 1
    \/ unescaped(code, "'") % 2 = 1

\* C16 as claimed: for every language, a fixed code with unbalanced braces,
\* parentheses or brackets or an odd number of unescaped quotes is not safe.
C16_UnbalancedIsUnsafe ==
    (FixValidated /\ Unbalanced(pf.fix_result.fixed_code))
        => ~pf.fix_result.is_safe

\* the largest score of the sensitive keywords of a code context
MaxKeywordScore(code_context) ==
    CHOOSE m \in {sensitive_keywords[k] : k \in code_context.sensitive} :
        \A k \in code_context.sensitive : sensitive_keywords[k] <= m

LowImpactPath == Finding.file_path.keywords \cap LOW_IMPACT_PATHS # {}

\* C19 as claimed: with a low-impact keyword in the path the impact is at most
\* 3, for every code context and every other keyword of the path.
C19_LowImpactCap ==
    (Assessed /\ ~AssessFailed /\ LowImpactPath) => pf.risk.impact <= 3

\* C19 as amended: with a low-impact keyword in the path, the impact is 3 for
\* a code context without sensitive-operation keyword (whatever other keyword
\* the path matches), and the largest score of the sensitive-operation
\* keywords the code context contains otherwise.
C19_CapBelowSensitiveKeywords ==
    (Assessed /\ ~AssessFailed /\ LowImpactPath) =>
        pf.risk.impact = (IF Finding.code_context.sensitive = {} THEN 3
                          ELSE MaxKeywordScore(Finding.code_context))

\* a test path that also matches a high-impact keyword, raised to 10 by the
\* code around the finding
C19_Witness ==
    /\ Assessed /\ ~AssessFailed
    /\ {"test", "user"} \subseteq Finding.file_path.keywords
    /\ Finding.code_context.sensitive = {"password", "credit_card"}
    /\ pf.risk.impact = 10

\* ------------------------------------------------------ end-to-end scenarios
MaxScenarioBatch == 1     \* findings of the batch an end-to-end run processes

\* src/test/LoginTest.java
TestPath == [keywords |-> {"test", "login"}, ext |-> ".java"]

\* a finding that risk scoring puts in the auto-fix tier: CRITICAL, on a
\* public entry point of src/main/UserService.java (8 * 9 * 9 / 100 = 6.48)
ScenarioAutoFix ==
    [ScenarioA EXCEPT !.severity = "CRITICAL", !.code_context.api = TRUE]

\* the fixed codes that equal the original code o up to surrounding whitespace
SameAfterTrim(o) == {o, strip(o), <<"\n">> \o strip(o) \o <<" ">>}

\* The findings of the end-to-end runs: scenario A under every answer to the
\* false-positive prompt and to the risk prompt; findings in a test file
\* (scenario B) with every code context, of the highest exploitability too;
\* auto-fix findings whose fix is the original code again (scenario C), or a
\* changed code, with a confidence above and below the threshold.
ScenarioFindings ==
    {[ScenarioA EXCEPT !.fp_response = r] : r \in FpResponses}
    \cup {[ScenarioA EXCEPT !.risk_response = r] : r \in RiskResponses}
    \cup {[ScenarioA EXCEPT !.file_path = TestPath, !.code_context = c,
                            !.rule_key = k, !.severity = "CRITICAL",
                            !.risk_response = r] :
              c \in CodeContexts,
              k \in {k \in RuleKeys : k.category # "none"},
              r \in {NotANumberAnswer,
                     Object([confidence |-> Number(100),
                             justification |-> "model"])}}
    \cup UNION {{[ScenarioAutoFix EXCEPT !.code = o,
                                         !.fix_response =
                                             Object([has_fixed_code |-> TRUE,
                                                     fixed_code |-> f,
                                                     confidence |-> Number(n)])] :
                     f \in SameAfterTrim(o) \cup {<<"y", "y">>},
                     n \in FixConfidences} : o \in OriginalCodes}

\* An end-to-end run: run_once under the default configuration, the analyzers
\* computing their results from the finding and the model's answers.
ScenarioInit == Init /\ config = DefaultConfig /\ mode = "once"

\* _fetch_new_findings returns a batch of scenario findings
fetch_returns_findings ==
    /\ main_pc = "fetch"
    /\ findings' \in SeqsUpTo(ScenarioFindings, MaxScenarioBatch)
    /\ idx' = 1
    /\ invoked' = << >>
    /\ main_pc' = "processing"
    /\ UNCHANGED <<config, mode, source, now, prs_created_this_hour,
                   comments_posted_this_hour, rate_limit_reset_time, stats,
                   last_run_time, polls, pf, calls, raised, window, recent>>

\* fp_detector.analyze returns what it computes from the model's answer
analyze_computes ==
    /\ InFinding("analyze")
    /\ calls' = Append(calls, "analyze")
    /\ AfterAnalyze(analyze(Finding.fp_response))
    /\ UNCHANGED LoopVars

\* risk_assessor.assess returns what it computes
assess_computes ==
    /\ InFinding("assess")
    /\ calls' = Append(calls, "assess")
    /\ AfterAssess(assess(Finding, Finding.code_context, Finding.rule_type,
                          Finding.risk_response))
    /\ UNCHANGED LoopVars

\* fix_generator.generate_fix returns what it computes
generate_fix_computes ==
    /\ InFinding("generate_fix")
    /\ calls' = Append(calls, "generate_fix")
    /\ AfterGenerateFix(generate_fix(Finding, Finding.code, Finding.fix_response))
    /\ UNCHANGED LoopVars

ScenarioNext ==
    \/ Tick
    \/ fetch_returns_findings
    \/ call_process_finding
    \/ get_source_code_returns
    \/ context_get_file_contents_returns
    \/ get_rule_details_returns
    \/ analyze_computes
    \/ fp_add_comment_returns
    \/ transition_issue_returns
    \/ assess_computes
    \/ risk_add_comment_returns
    \/ get_full_file_returns
    \/ generate_fix_computes
    \/ create_branch_returns
    \/ create_or_update_file_returns
    \/ create_pull_request_returns
    \/ request_copilot_review_returns
    \/ pr_add_comment_returns
    \/ escalate_add_comment_returns
    \/ loop_next
    \/ batch_done

ScenarioSpec == ScenarioInit /\ [][ScenarioNext]_vars

\* ------------------------------------------------ properties of the scenarios
\* the model-backend call of the false-positive detector failed: it raised, its
\* text holds no JSON object, or building the result from the object raised
FpCallFailed ==
    \/ Finding.fp_response.raises
    \/ loads_outer_braces(Finding.fp_response).kind # "object"
    \/ /\ Finding.fp_response.data.confidence.present
       /\ ~Finding.fp_response.data.confidence.numeric

\* C11: when the model-backend call fails, its text holds no parseable JSON
\* object or building the result raises, analyze returns (it does not raise)
\* is_false_positive = False with confidence 0.0 and a manual-review
\* recommendation; the finding is not handled as a false positive and goes on
\* to risk scoring.
C11_AnalyzeFailsConservatively ==
    (Has("analyze") /\ FpCallFailed) =>
        /\ pf.fp_analysis.present
        /\ ~pf.fp_analysis.is_false_positive
        /\ pf.fp_analysis.confidence = 0
        /\ pf.fp_analysis.recommendation
              \in {"Manual review required",
                   "Manual review required due to analysis error"}
        /\ pf.pc = "assess" \/ Has("assess")
        /\ ~Has("add_comment:fp")
        /\ ~TransitionIssued
        /\ stats.false_positives_detected = 0

\* the backend answered "42" to the false-positive prompt and the finding was
\* risk scored
C11_Witness ==
    /\ Has("assess")
    /\ Finding.fp_response = Scalar
    /\ pf.fp_analysis.recommendation = "Manual review required due to analysis error"

\* the current finding is the finding of scenario A
IsScenarioA ==
    /\ Finding.rule_key.text = "java:S2259"
    /\ Finding.severity = "HIGH"
    /\ Finding.file_path = ScenarioA.file_path
    /\ Finding.code_context = ScenarioA.code_context
    /\ Finding.rule_type = "none"

\* the fix generator was invoked for the current finding
FixGeneratorInvoked == pf.pc = "generate_fix" \/ Has("generate_fix")

\* C17 as claimed: scenario A is assessed 6 / 9 / 5, its priority is P1 or
\* higher, and process_finding invokes the fix generator for it.
C17_ScenarioAIsAutoFixed ==
    (Assessed /\ ~AssessFailed /\ IsScenarioA) =>
        /\ pf.risk.exploitability = 6
        /\ pf.risk.impact = 9
        /\ pf.risk.exposure = 5
        /\ pf.risk.priority \in {"P0", "P1"}
        /\ (pf.pc = "returned") => FixGeneratorInvoked

\* C17 as amended: scenario A is assessed 6 / 9 / 5, its risk score is 2.7
\* times the confidence (at most 2.7), its priority is P3 for every confidence
\* in [0,1], and with the default auto-fix tier the fix generator is not
\* invoked: the finding is tracked only.
C17_ScenarioAIsTrackedOnly ==
    (Assessed /\ ~AssessFailed /\ IsScenarioA) =>
        /\ pf.risk.exploitability = 6
        /\ pf.risk.impact = 9
        /\ pf.risk.exposure = 5
        /\ pf.risk.risk_score = 270 * pf.risk.confidence
        /\ pf.risk.priority = "P3"
        /\ pf.pc \in {"risk_add_comment", "returned"}
        /\ ~FixGeneratorInvoked
        /\ ~PrAttempted
        /\ pf.escalated = "none"

\* scenario A, scored with full confidence, ended after the risk comment
C17_Witness ==
    /\ pf.pc = "returned"
    /\ Has("add_comment:risk")
    /\ IsScenarioA
    /\ pf.risk.confidence = 100
    /\ pf.risk.risk_score = 27000

\* C18: a finding whose path contains "test" gets exposure 1 whatever markers
\* its code context holds, priority P3 for every rule, severity and model
\* confidence in [0,1], and with the default auto-fix tier no fix generation:
\* it is tracked only.
C18_TestFindingIsTrackedOnly ==
    (Assessed /\ ~AssessFailed /\ "test" \in Finding.file_path.keywords) =>
        /\ pf.risk.exposure = 1
        /\ pf.risk.priority = "P3"
        /\ pf.pc \in {"risk_add_comment", "returned"}
        /\ ~FixGeneratorInvoked
        /\ ~PrAttempted
        /\ pf.escalated = "none"

\* a SQL injection on an unguarded public entry point of a test file, with
\* sensitive keywords around it, was tracked only
C18_Witness ==
    /\ pf.pc = "returned"
    /\ Has("add_comment:risk")
    /\ "test" \in Finding.file_path.keywords
    /\ Finding.code_context.api /\ ~Finding.code_context.auth
    /\ pf.risk.exploitability = 10
    /\ pf.risk.impact = 10
    /\ pf.risk.confidence = 100

\* C20: a fixed code equal to the original code context after trimming
\* surrounding whitespace fails the check "No changes were made", is not
\* safe, gets no branch, commit or pull request, and is escalated with the
\* reason "Complex fix required".
C20_UnchangedFixIsEscalated ==
    (FixValidated /\ strip(pf.fix_result.fixed_code) = strip(Finding.code)) =>
        /\ "No changes were made" \in pf.fix_result.checks_failed
        /\ ~pf.fix_result.is_safe
        /\ ~PrAttempted
        /\ pf.escalated = "Complex fix required"

\* a fix that differs from the original in surrounding whitespace only was
\* escalated with a comment
C20_Witness ==
    /\ FixValidated
    /\ pf.fix_result.fixed_code # Finding.code
    /\ strip(pf.fix_result.fixed_code) = strip(Finding.code)
    /\ pf.pc = "returned"
    /\ Has("add_comment:escalate")
    /\ pf.escalated = "Complex fix required"


\* ------------------------------------------------ properties of the counters
\* this step ends process_finding normally
FindingReturns == pf.pc # "returned" /\ pf'.pc = "returned"

\* a pull request was created for the finding that this step ends
PrCreatedForFinding == \E i \in DOMAIN calls' : calls'[i] = "create_pull_request"

\* C24: stats["prs_created"] counts the pull requests actually created: a step
\* increases it by one exactly when it ends the processing of a finding for
\* which create_pull_request returned a pull request, and no other step changes
\* it (not for a finding blocked by the "pr" limit, without a repository or
\* whose create_pull_request failed).
C24_StatsCountCreatedPrs ==
    [][stats'.prs_created = stats.prs_created
           + (IF FindingReturns /\ PrCreatedForFinding THEN 1 ELSE 0)]_vars


\* ------------------------------------------- properties of _create_fix_pr
\* call c was made for the current finding: it is awaited, or has returned
\* with success or failure
Attempted(c) == pf.pc = c \/ Has(c) \/ Has(c \o ":failed")

\* C29: _create_fix_pr calls create_branch, create_or_update_file and
\* create_pull_request in this order and attempts a step only after the step
\* before it succeeded: the commit is attempted only on a created branch, the
\* pull request only after a successful commit.
C29_StepsNeedSuccess ==
    /\ Attempted("create_or_update_file") => Has("create_branch")
    /\ Attempted("create_pull_request") => Has("create_or_update_file")


\* C27: whatever the order of the findings, the outcomes of the collaborator
\* calls and the time that passes between a capacity check and its increment,
\* both hourly counters stay between 0 and their configured cap.
C27_CountersWithinCaps ==
    /\ 0 <= prs_created_this_hour
    /\ prs_created_this_hour <= config.max_prs_per_hour
    /\ 0 <= comments_posted_this_hour
    /\ comments_posted_this_hour <= config.max_comments_per_hour

\* Both counters are at their cap, the pull request counted after the window
\* in which its capacity was checked has expired.
C27_Witness ==
    /\ Has("create_pull_request")
    /\ prs_created_this_hour = config.max_prs_per_hour
    /\ comments_posted_this_hour = config.max_comments_per_hour
    /\ now >= rate_limit_reset_time


\* ------------------------------------------------------ properties of a dry run
\* the collaborator calls that change the finding source or the code host
MutatingCalls ==
    {"add_comment:fp", "add_comment:risk", "add_comment:pr",
     "add_comment:escalate", "transition_issue", "create_branch",
     "create_or_update_file", "create_pull_request"}

\* C23: started with --dry-run the agent analyzes findings but changes
\* nothing: no comment, transition, branch, commit or pull request reaches the
\* finding source or the code host for any finding.
C23_DryRunChangesNothing ==
    config.dry_run => \A i \in DOMAIN calls : calls[i] \notin MutatingCalls


\* ------------------------------------- properties of the reported confidence
\* C25: every FalsePositiveAnalysis that analyze returns has a confidence in
\* [0,1] (0..100 percent), whatever number the model wrote in its JSON.
C25_ConfidenceInRange ==
    pf.fp_analysis.present =>
        (0 <= pf.fp_analysis.confidence /\ pf.fp_analysis.confidence <= 100)


\* ------------------------------------------- properties of response parsing
\* the model's answer to the prompt of the analyzer that was called
Response ==
    CASE Finding.call = "analyze"      -> Finding.fp_response
      [] Finding.call = "assess"       -> Finding.risk_response
      [] Finding.call = "generate_fix" -> Finding.fix_response

\* the finding with the answers of the model replaced by response
Answering(response) ==
    [Finding EXCEPT !.fp_response = response, !.risk_response = response,
                    !.fix_response = response]

\* the results of a frame in which no analyzer has returned
NoResult == [fp_analysis |-> NoAnalysis, risk |-> NoAssessment, fix_result |-> NoFix]

\* what the analyzer that was called returns for the finding f
ResultFor(f) ==
    CASE f.call = "analyze" ->
             [NoResult EXCEPT !.fp_analysis = analyze(f.fp_response)]
      [] f.call = "assess" ->
             [NoResult EXCEPT !.risk = assess(f, f.code_context, f.rule_type,
                                              f.risk_response)]
      [] f.call = "generate_fix" ->
             [NoResult EXCEPT !.fix_result = generate_fix(f, f.code,
                                                          f.fix_response)]

\* the text is one JSON object between brace-free texts, of which one at least
\* is not empty
WrappedObject(text) ==
    \E i, j \in DOMAIN text :
        /\ SubSeq(text, i, j) = <<"{", "members", "}">>
        /\ Len(text) > 3
        /\ \A k \in DOMAIN text : (k < i \/ k > j) => text[k] \notin {"{", "}"}

\* the text has no span from a '{' to a later '}'
NoSpan(text) ==
    ~\E i, j \in DOMAIN text : i < j /\ text[i] = "{" /\ text[j] = "}"

\* the result with which the called analyzer handles a parse failure: the
\* conservative verdict, no fix, the heuristic assessment with the fallback
\* confidence
ParseFailureResult ==
    CASE Finding.call = "analyze" ->
             /\ ~pf.fp_analysis.is_false_positive
             /\ pf.fp_analysis.confidence = 0
      [] Finding.call = "assess" ->
             /\ pf.risk.confidence = fallback_analysis.data.confidence.value
             /\ pf.risk.exploitability =
                    calculate_exploitability(Finding.rule_key, Finding.rule_type,
                                             Finding.severity)
      [] Finding.call = "generate_fix" -> ~pf.fix_result.present

\* C26: an analyzer reads a JSON object wrapped in brace-free prose as it reads
\* the bare object (same result), and handles a text without a '{' ... '}'
\* span as a parse failure: conservative verdict, no fix, fallback confidence.
C26_ProseWrappedJson ==
    (mode = "analyzer" /\ pf.pc = "returned" /\ ~Response.raises) =>
        /\ WrappedObject(Response.text) =>
               [fp_analysis |-> pf.fp_analysis, risk |-> pf.risk,
                fix_result |-> pf.fix_result]
                   = ResultFor(Answering(Object(Response.data)))
        /\ NoSpan(Response.text) => ParseFailureResult


\* --------------------------------------------- properties of the committed file
\* C30: the content committed to the fix branch is the original file with the
\* lines of the code-context window replaced by the fixed code: the lines above
\* and below the window are in it, unchanged and in order.
C30_CommitKeepsRestOfFile ==
    Has("create_or_update_file") =>
        pf.committed = Finding.file_before \o pf.fix_result.fixed_code
                           \o Finding.file_after


\* ------------------------------------------------- the polls of run_continuous
\* run_continuous under the default configuration against a finding source in
\* which issues are created while the agent runs; the analyzers compute their
\* results from the finding and the model's answers.
MaxIssues == 2            \* issues created in the finding source during a run
MaxFairIssues == 1        \* the same, in the runs explored under fairness

\* The findings created: a false positive, a finding that is fixed by a pull
\* request and one that is escalated.
PollFindings ==
    {[ScenarioA EXCEPT !.fp_response =
          Object([is_false_positive |-> TRUE, confidence |-> Number(95),
                  evidence_ok |-> TRUE])],
     [ScenarioAutoFix EXCEPT !.code = <<"try", "\n", "x =">>,
                             !.fix_response =
                                 Object([has_fixed_code |-> TRUE,
                                         fixed_code |-> <<"try", "\n", "y">>,
                                         confidence |-> Number(95)])],
     [ScenarioAutoFix EXCEPT !.fix_response =
          Object([has_fixed_code |-> TRUE, fixed_code |-> <<"y", "y">>,
                  confidence |-> Number(80)])]}

\* run_continuous starts, n issues being created while it runs
PollStart(n) ==
    /\ AgentInit
    /\ config = DefaultConfig
    /\ mode = "continuous"
    /\ source = [NoSource EXCEPT !.pending = n]

PollInit == PollStart(MaxIssues)

\* an open issue of a configured severity is created in the finding source
issue_created ==
    /\ source.pending > 0
    /\ \E finding \in PollFindings :
          source' = [source EXCEPT
                        !.issues = Append(@, [created |-> now, finding |-> finding]),
                        !.pending = @ - 1]
    /\ UNCHANGED <<config, mode, now, prs_created_this_hour,
                   comments_posted_this_hour, rate_limit_reset_time, stats,
                   main_pc, last_run_time, polls, findings, idx, pf, calls,
                   invoked, raised, window, recent>>

\* The sets of issues a successful search with createdAfter = created_after
\* (-1: no such parameter) can return: the issues created later, and, the clock
\* of the model being coarser than the timestamps, any of the issues created in
\* the same tick that no fetch has returned yet.
Returnable(created_after) ==
    LET later == {i \in DOMAIN source.issues :
                     created_after = -1 \/ source.issues[i].created > created_after}
        same  == {i \in DOMAIN source.issues :
                     /\ source.issues[i].created = created_after
                     /\ i \notin source.fetched}
    IN  {later \cup some : some \in SUBSET same}

\* the findings parsed from the issues of the set S, in the order of creation
Parsed(S) ==
    LET order == CHOOSE f \in [1..Cardinality(S) -> S] :
                     \A j, k \in 1..Cardinality(S) : j < k => f[j] < f[k]
    IN  [k \in 1..Cardinality(S) |-> source.issues[order[k]].finding]

\* _fetch_new_findings(last_run_time) returns: get_issues hands back the
\* parsed issues, or [] from its except clause when the call failed
fetch_since_returns ==
    /\ main_pc = "fetch"
    /\ \/ \E S \in Returnable(last_run_time) :
             /\ findings' = Parsed(S)
             /\ source' = [source EXCEPT !.fetched = @ \cup S, !.failed = FALSE]
       \/ /\ findings' = << >>
          /\ source' = [source EXCEPT !.failed = TRUE, !.outage = TRUE]
    /\ idx' = 1
    /\ invoked' = << >>
    /\ main_pc' = "processing"
    /\ UNCHANGED <<config, mode, now, prs_created_this_hour,
                   comments_posted_this_hour, rate_limit_reset_time, stats,
                   last_run_time, polls, pf, calls, raised, window, recent>>

\* the operator interrupts the process while the loop awaits a fetch or sleeps:
\* the pending await raises and run_continuous is left (lines 115-117)
interrupt ==
    /\ main_pc \in {"fetch", "sleep", "backoff"}
    /\ main_pc' = "interrupted"
    /\ UNCHANGED <<config, mode, source, now, prs_created_this_hour,
                   comments_posted_this_hour, rate_limit_reset_time, stats,
                   last_run_time, polls, findings, idx, pf, calls, invoked,
                   raised, window, recent>>

\* the steps of the agent: the resumptions of run_continuous and of
\* process_finding after an await
PollAgentNext ==
    \/ loop_top
    \/ fetch_since_returns
    \/ call_process_finding
    \/ get_source_code_returns
    \/ context_get_file_contents_returns
    \/ get_rule_details_returns
    \/ analyze_computes
    \/ fp_add_comment_returns
    \/ transition_issue_returns
    \/ assess_computes
    \/ risk_add_comment_returns
    \/ get_full_file_returns
    \/ generate_fix_computes
    \/ create_branch_returns
    \/ create_or_update_file_returns
    \/ create_pull_request_returns
    \/ request_copilot_review_returns
    \/ pr_add_comment_returns
    \/ escalate_add_comment_returns
    \/ loop_next
    \/ batch_done
    \/ sleep_returns
    \/ backoff_returns

PollNext ==
    \/ Tick
    \/ issue_created
    \/ interrupt
    \/ PollAgentNext

PollSpec == PollInit /\ [][PollNext]_vars

\* The event loop resumes the coroutine when the sleep it awaits has ended, and
\* the coroutine then runs up to its next await.
FairPollSpec ==
    /\ PollStart(MaxFairIssues)
    /\ [][PollNext]_vars
    /\ WF_vars(backoff_returns)
    /\ WF_vars(loop_top)


\* ------------------------------------------------------ properties of the polls
\* C21: a failure of the top-level loop outside the handling of a finding does
\* not end the agent: once the loop pauses in its except clause it goes on to
\* another fetch of findings (within the polls explored), unless the operator
\* interrupts the process.
C21_FailureLeadsToNextPoll ==
    (main_pc = "backoff" /\ polls < MaxPolls)
        ~> (main_pc = "fetch" \/ main_pc = "interrupted")

\* the loop pauses after a failure that followed a processed batch
C21_Witness ==
    /\ main_pc = "backoff"
    /\ polls < MaxPolls
    /\ stats.findings_analyzed > 0

\* C22: a poll whose fetch from the finding source failed does not advance
\* last_run_time, so that the next fetch asks again for the findings created
\* since the last batch that was fetched.
C22_FailedFetchKeepsTimestamp ==
    [][source.failed => last_run_time' = last_run_time]_vars

\* C28: no finding is skipped between polls: an issue that no fetch has
\* returned yet was not created before last_run_time, so the fetch of a later
\* poll (created_after = last_run_time) returns it; fetches that fail aside.
C28_NoFindingSkipped ==
    ~source.outage =>
        \A i \in DOMAIN source.issues :
            source.issues[i].created < last_run_time => i \in source.fetched

=============================================================================
